---- MODULE Spec2Model ----
\* Model of the command router of the WabiSaby plugin SDK (src/router.go,
\* src/command.go): the registry of commands, the reflective validation of a
\* handler's signature at registration, and the routing of a call to its
\* handler with argument binding and normalisation of the handler's outputs.
EXTENDS Integers, Sequences, FiniteSets, TLC

VARIABLES commands, last, okRegs, mu, procs, original, held, router, routers,
          server, reqs, resp

vars == <<commands, last, okRegs, mu, procs, original, held, router, routers,
          server, reqs, resp>>

\* The gRPC Server, its requests in progress and the last response it gave
grpc == <<server, reqs, resp>>

\* The state that the calls of a single client leave alone
others == <<mu, procs, held, router, routers, grpc>>

\* The state outside the router: what its callers hold, and the BasePlugin
outside == <<held, router, routers, grpc>>

\* ---------------------------------------------------------------------------
\* Bounds of the model
\* ---------------------------------------------------------------------------
MaxIn == 3
MaxOut == 3
MaxArgs == 2

Names == {"play", "stop"}

\* ---------------------------------------------------------------------------
\* reflect.Type, as far as the router inspects it
\* ---------------------------------------------------------------------------
Kind(t) ==
    CASE t \in {"*sdk.Context", "*other.Context", "*Args", "*R", "*Item"} -> "ptr"
      [] t \in {"sdk.Context", "other.Context", "Args", "R", "Item"} -> "struct"
      [] t \in {"interface{}", "error"} -> "interface"
      [] t = "map[string]interface{}" -> "map"
      [] t = "[]string" -> "slice"
      [] t = "string" -> "string"
      [] t = "int" -> "int"

Elem(t) ==
    CASE t = "*sdk.Context" -> "sdk.Context"
      [] t = "*other.Context" -> "other.Context"
      [] t = "*Args" -> "Args"
      [] t = "*R" -> "R"
      [] t = "*Item" -> "Item"

TypeName(t) ==
    CASE t \in {"sdk.Context", "other.Context"} -> "Context"
      [] t \in {"Args", "R", "Item", "string", "int", "error"} -> t
      [] OTHER -> ""

PtrTo(t) ==
    CASE t = "sdk.Context" -> "*sdk.Context"
      [] t = "other.Context" -> "*other.Context"
      [] t = "Args" -> "*Args"
      [] t = "R" -> "*R"
      [] t = "Item" -> "*Item"

ImplementsError(t) == t = "error"

\* ---------------------------------------------------------------------------
\* Handlers: the values a caller can pass as CommandHandler
\* ---------------------------------------------------------------------------

NilHandler == [kind |-> "nil", ins |-> << >>, outs |-> << >>]
IntHandler == [kind |-> "int", ins |-> << >>, outs |-> << >>]
Func(ins, outs) == [kind |-> "func", ins |-> ins, outs |-> outs]

SeqsUpTo(S, n) == UNION {[1..k -> S] : k \in 0..n}

NumIn(h) == Len(h.ins)
NumOut(h) == Len(h.outs)

\* ---------------------------------------------------------------------------
\* Errors returned by the router
\* ---------------------------------------------------------------------------
NoError == "nil"

InvalidSignature ==
    {"handler must be a function", "handler must have 1 or 2 inputs",
     "handler must have 2 outputs (result, error)",
     "first handler argument must be *Context", "second handler return must be error"}


\* The signature checks with the lower bound on the inputs only
ValidateSignatureNoUpperBound(handler) ==
    IF handler.kind = "nil" THEN "panic"
    ELSE IF handler.kind # "func" THEN "handler must be a function"
    ELSE IF NumIn(handler) < 1 THEN "handler must have 1 or 2 inputs"
    ELSE IF NumOut(handler) # 2 THEN "handler must have 2 outputs (result, error)"
    ELSE IF Kind(handler.ins[1]) # "ptr" \/ TypeName(Elem(handler.ins[1])) # "Context"
         THEN "first handler argument must be *Context"
    ELSE IF ~ImplementsError(handler.outs[2]) THEN "second handler return must be error"
    ELSE NoError

\* The outcome of the signature checks of Register: an error, NoError, or a
\* panic (reflect.Value.Type called on the zero Value of a nil interface).
ValidateSignature(handler) ==
    IF handler.kind = "nil" THEN "panic"
    ELSE IF handler.kind # "func" THEN "handler must be a function"
    ELSE IF NumIn(handler) < 1 \/ NumIn(handler) > 2 THEN "handler must have 1 or 2 inputs"
    ELSE IF NumOut(handler) # 2 THEN "handler must have 2 outputs (result, error)"
    ELSE IF Kind(handler.ins[1]) # "ptr" \/ TypeName(Elem(handler.ins[1])) # "Context"
         THEN "first handler argument must be *Context"
    ELSE IF ~ImplementsError(handler.outs[2]) THEN "second handler return must be error"
    ELSE NoError

\* The argument type recorded for a handler; NoType when it takes the context only.
NoType == "none"

DetectArgType(handler) ==
    IF NumIn(handler) = 2
    THEN IF Kind(handler.ins[2]) = "ptr" THEN Elem(handler.ins[2]) ELSE handler.ins[2]
    ELSE NoType

\* ---------------------------------------------------------------------------
\* Command metadata and the functional options (src/command.go)
\* ---------------------------------------------------------------------------
NoValue == "nil"
NoReturnType == [set |-> FALSE, Name |-> "", Schema |-> ""]

ParameterMetadata(name, type, required, default) ==
    [Name |-> name, Type |-> type, Description |-> "", Required |-> required,
     Default |-> default]

NewMetadata(name) ==
    [Name |-> name, Description |-> "", Parameters |-> << >>,
     ReturnType |-> NoReturnType, Examples |-> << >>]

NoOption == [opt |-> "none", desc |-> "", params |-> << >>, ret |-> NoReturnType,
             examples |-> << >>]

WithDescription(desc) == [NoOption EXCEPT !.opt = "WithDescription", !.desc = desc]
WithParameters(params) == [NoOption EXCEPT !.opt = "WithParameters", !.params = params]
WithReturnType(name, schema) ==
    [NoOption EXCEPT !.opt = "WithReturnType",
                     !.ret = [set |-> TRUE, Name |-> name, Schema |-> schema]]
WithExamples(examples) == [NoOption EXCEPT !.opt = "WithExamples", !.examples = examples]

\* WithParameters adding to the parameters that are already set
ApplyOptionAppending(m, o) ==
    CASE o.opt = "WithDescription" -> [m EXCEPT !.Description = o.desc]
      [] o.opt = "WithParameters" -> [m EXCEPT !.Parameters = m.Parameters \o o.params]
      [] o.opt = "WithReturnType" -> [m EXCEPT !.ReturnType = o.ret]
      [] o.opt = "WithExamples" -> [m EXCEPT !.Examples = o.examples]

ApplyOption(m, o) ==
    CASE o.opt = "WithDescription" -> [m EXCEPT !.Description = o.desc]
      [] o.opt = "WithParameters" -> [m EXCEPT !.Parameters = o.params]
      [] o.opt = "WithReturnType" -> [m EXCEPT !.ReturnType = o.ret]
      [] o.opt = "WithExamples" -> [m EXCEPT !.Examples = o.examples]

RECURSIVE ApplyOptions(_, _)
ApplyOptions(m, opts) ==
    IF opts = << >> THEN m
    ELSE ApplyOptions(ApplyOption(m, Head(opts)), Tail(opts))

BuildMetadata(name, opts) == ApplyOptions(NewMetadata(name), opts)

\* ---------------------------------------------------------------------------
\* The registry
\* ---------------------------------------------------------------------------
NewCommandRouter == [n \in {} |-> 0]

\* The record as it is before lines 97-105 have set its argument shape
registeredCommandWithoutArgType(name, handler, opts) ==
    [metadata |-> BuildMetadata(name, opts), handler |-> handler, argType |-> NoType]

registeredCommand(name, handler, opts) ==
    [metadata |-> BuildMetadata(name, opts), handler |-> handler,
     argType |-> DetectArgType(handler)]

\* An insertion that starts a new map instead of adding to the existing one
InsertIntoNewMap(cmds, name, cmd) == [n \in {name} |-> cmd]

Insert(cmds, name, cmd) ==
    [n \in DOMAIN cmds \cup {name} |-> IF n = name THEN cmd ELSE cmds[n]]

\* Register without the duplicate check of lines 54-56
RegisterResultOverwrite(cmds, name, handler, opts) ==
    LET v == ValidateSignature(handler) IN
    IF v = "panic" THEN [err |-> NoError, panicked |-> TRUE, cmds |-> cmds]
    ELSE IF v # NoError THEN [err |-> v, panicked |-> FALSE, cmds |-> cmds]
    ELSE [err |-> NoError, panicked |-> FALSE,
          cmds |-> Insert(cmds, name, registeredCommand(name, handler, opts))]

\* Register applying the options to the stored metadata before the duplicate check
RegisterResultDuplicateUpdates(cmds, name, handler, opts) ==
    IF name \in DOMAIN cmds
    THEN [err |-> "command already registered", panicked |-> FALSE,
          cmds |-> [cmds EXCEPT ![name].metadata = ApplyOptions(cmds[name].metadata, opts)]]
    ELSE LET v == ValidateSignature(handler) IN
         IF v = "panic" THEN [err |-> NoError, panicked |-> TRUE, cmds |-> cmds]
         ELSE IF v # NoError THEN [err |-> v, panicked |-> FALSE, cmds |-> cmds]
         ELSE [err |-> NoError, panicked |-> FALSE,
               cmds |-> Insert(cmds, name, registeredCommand(name, handler, opts))]

\* Register under the write lock: the outcome and the registry it leaves.
RegisterResult(cmds, name, handler, opts) ==
    IF name \in DOMAIN cmds
    THEN [err |-> "command already registered", panicked |-> FALSE, cmds |-> cmds]
    ELSE LET v == ValidateSignature(handler) IN
         IF v = "panic" THEN [err |-> NoError, panicked |-> TRUE, cmds |-> cmds]
         ELSE IF v # NoError THEN [err |-> v, panicked |-> FALSE, cmds |-> cmds]
         ELSE [err |-> NoError, panicked |-> FALSE,
               cmds |-> Insert(cmds, name, registeredCommand(name, handler, opts))]

\* ---------------------------------------------------------------------------
\* Raw argument values and the keyed object built from them
\* ---------------------------------------------------------------------------
Keys == {"a", "b", "z"}
Absent == "absent"

EmptyObject == [k \in Keys |-> Absent]

ScalarArg(s) == [k |-> "scalar", s |-> s, m |-> EmptyObject]
MapArg(m) == [k |-> "map", s |-> "", m |-> m]

\* A value as it is stored under a key of the keyed object
AsEntry(arg) == IF arg.k = "map" THEN "object" ELSE arg.s

\* The zip letting a declared default replace the value that was supplied
RECURSIVE ZipParametersDefaultFirst(_, _, _, _)
ZipParametersDefaultFirst(params, args, i, argsMap) ==
    IF i > Len(params) THEN argsMap
    ELSE LET param == params[i] IN
         ZipParametersDefaultFirst(params, args, i + 1,
            IF param.Default # NoValue
            THEN [argsMap EXCEPT ![param.Name] = param.Default]
            ELSE IF i <= Len(args) THEN [argsMap EXCEPT ![param.Name] = AsEntry(args[i])]
                 ELSE argsMap)

\* Lines 145-151: zip the declared parameters against the positional values
RECURSIVE ZipParameters(_, _, _, _)
ZipParameters(params, args, i, argsMap) ==
    IF i > Len(params) THEN argsMap
    ELSE LET param == params[i] IN
         ZipParameters(params, args, i + 1,
            IF i <= Len(args) THEN [argsMap EXCEPT ![param.Name] = AsEntry(args[i])]
            ELSE IF param.Default # NoValue
                 THEN [argsMap EXCEPT ![param.Name] = param.Default]
                 ELSE argsMap)

\* The keyed object of the caller completed with the declared defaults
BuildArgsMapWithDefaults(metadata, args) ==
    IF args[1].k = "map" THEN ZipParameters(metadata.Parameters, << >>, 1, args[1].m)
    ELSE ZipParameters(metadata.Parameters, args, 1, EmptyObject)

\* Lines 140-152: argsMap is the caller's own map (line 141) or a new one
BuildArgsMap(metadata, args) ==
    IF args[1].k = "map" THEN args[1].m
    ELSE ZipParameters(metadata.Parameters, args, 1, EmptyObject)

\* The argsMap of a call: whether one was built, whether it is the map the
\* caller passed in, and its contents when it is marshalled
NotBound == [built |-> FALSE, aliased |-> FALSE, m |-> EmptyObject]

Bound(args, argsMap) == [built |-> TRUE, aliased |-> args[1].k = "map", m |-> argsMap]

\* The caller's argument list after the call: a map that was used as argsMap
\* holds whatever was left in argsMap
ArgsAfter(args, bound) ==
    IF bound.aliased THEN [args EXCEPT ![1] = MapArg(bound.m)] ELSE args

\* The errors of encoding/json that lines 157 and 160 wrap with %w

\* json.Marshal fails on a value it has no encoding for
MarshalFails(argsMap) == \E k \in Keys : argsMap[k] = "chan"

\* The JSON field of a struct type under a key: Args has the int fields a
\* and b; Item has the int field a and the open-valued field z (an
\* interface{}, as the values of QueueItem.Song are).
FieldKind(t, key) ==
    IF t = "Args" /\ key \in {"a", "b"} THEN "int"
    ELSE IF t = "Item" /\ key = "a" THEN "int"
    ELSE IF t = "Item" /\ key = "z" THEN "any"
    ELSE Absent

\* The zero value of a field: 0 for an int, nil for an interface{}
ZeroField(kind) ==
    CASE kind = "int" -> "0"
      [] kind = "any" -> NoValue
      [] OTHER -> Absent

ZeroValue(t) == [type |-> t, f |-> [k \in Keys |-> ZeroField(FieldKind(t, k))]]

\* Numbers: the ints "0", "1", "5" and the float64s "f0", "f1", "f5" of the
\* same value
Ints == {"0", "1", "5"}

IsNumber(s) == s \in Ints \cup ({"f0", "f1", "f5"})

\* json.Unmarshal accepting any value for any field
UnmarshalFailsNever(argsMap, t) == FALSE

\* json.Unmarshal reports a value that does not fit the field it is bound to
UnmarshalFails(argsMap, t) ==
    \E k \in Keys : /\ FieldKind(t, k) = "int"
                    /\ argsMap[k] \notin {Absent, NoValue}
                    /\ ~IsNumber(argsMap[k])

\* The value that json.Unmarshal makes of the marshalled object, field by
\* field. json.Marshal writes an int and the float64 of the same value as the
\* same JSON number (named here by the int), and json.Unmarshal stores a JSON
\* number in an interface{} as a float64.
Unmarshal(argsMap, t) ==
    LET JSONNumber(s) ==
            CASE s \in Ints -> s
              [] s = "f0" -> "0"
              [] s = "f1" -> "1"
              [] s = "f5" -> "5"
        Float64(n) ==
            CASE n = "0" -> "f0"
              [] n = "1" -> "f1"
              [] n = "5" -> "f5"
        DecodeField(kind, v) ==
            IF kind = Absent THEN Absent
            ELSE IF v \in {Absent, NoValue} THEN ZeroField(kind)
            ELSE IF kind = "int" THEN JSONNumber(v)
            ELSE IF IsNumber(v) THEN Float64(JSONNumber(v))
            ELSE v
    IN  [type |-> t, f |-> [k \in Keys |-> DecodeField(FieldKind(t, k), argsMap[k])]]

\* ---------------------------------------------------------------------------
\* Route and invokeHandler
\* ---------------------------------------------------------------------------
NoResult == "nil"

Outcome(result, err, panicked, calls) ==
    [result |-> result, err |-> err, panicked |-> panicked, calls |-> calls,
     bound |-> NotBound, cause |-> NoError]

\* Lines 171-184: the handler's two outputs as Route reports them.
\* ret is "zero" or "value"; herr is NoError or "handler error".
\* reflect.Value.IsNil is defined for these kinds and panics for the others
ExtractResults(handler, ret, herr, calls) ==
    LET NilableKinds == {"chan", "func", "interface", "map", "ptr", "slice", "unsafe.Pointer"}
    IN  IF Kind(handler.outs[1]) \notin NilableKinds THEN Outcome(NoResult, NoError, TRUE, calls)
        ELSE IF Kind(handler.outs[2]) \notin NilableKinds THEN Outcome(NoResult, NoError, TRUE, calls)
        ELSE Outcome(IF ret = "zero" THEN NoResult ELSE "value", herr, FALSE, calls)

\* reflect.Value.Call panics unless every argument is assignable to its parameter
CallHandler(cmd, callTypes, instance, ret, herr) ==
    IF \/ Len(callTypes) # NumIn(cmd.handler)
       \/ \E i \in 1..Len(callTypes) :
             callTypes[i] # cmd.handler.ins[i] /\ cmd.handler.ins[i] # "interface{}"
    THEN Outcome(NoResult, NoError, TRUE, << >>)
    ELSE ExtractResults(cmd.handler, ret, herr,
            <<[name |-> cmd.metadata.Name, types |-> callTypes, arg |-> instance,
               ret |-> ret, herr |-> herr]>>)

invokeHandler(cmd, args, ret, herr) ==
    IF cmd.argType # NoType /\ NumIn(cmd.handler) = 2
    THEN LET callTypes == <<"*sdk.Context", PtrTo(cmd.argType)>> IN
         IF Len(args) > 0
         THEN LET argsMap == BuildArgsMap(cmd.metadata, args)
                  o == IF MarshalFails(argsMap)
                       THEN [Outcome(NoResult, "failed to marshal arguments", FALSE, << >>) EXCEPT
                                !.cause = "json: unsupported type"]
                       ELSE IF UnmarshalFails(argsMap, cmd.argType)
                       THEN [Outcome(NoResult, "failed to unmarshal arguments", FALSE, << >>) EXCEPT
                                !.cause = "json: cannot unmarshal"]
                       ELSE CallHandler(cmd, callTypes, Unmarshal(argsMap, cmd.argType),
                                        ret, herr)
              IN [o EXCEPT !.bound = Bound(args, argsMap)]
         ELSE CallHandler(cmd, callTypes, ZeroValue(cmd.argType), ret, herr)
    ELSE CallHandler(cmd, <<"*sdk.Context">>, ([type |-> NoType, f |-> EmptyObject]), ret, herr)

\* Route reporting a missing command as "no result, no error"
RouteResultSilent(cmds, command, args, ret, herr) ==
    IF command \notin DOMAIN cmds THEN Outcome(NoResult, NoError, FALSE, << >>)
    ELSE invokeHandler(cmds[command], args, ret, herr)

RouteResult(cmds, command, args, ret, herr) ==
    IF command \notin DOMAIN cmds THEN Outcome(NoResult, "unknown command", FALSE, << >>)
    ELSE invokeHandler(cmds[command], args, ret, herr)

\* ---------------------------------------------------------------------------
\* Observers
\* ---------------------------------------------------------------------------
HasCommand(cmds, name) == name \in DOMAIN cmds

CommandCount(cmds) == Cardinality(DOMAIN cmds)

\* GetCommands appends the metadata of every entry, in map iteration order
Listings(cmds) ==
    {l \in [1..Cardinality(DOMAIN cmds) -> {cmds[n].metadata : n \in DOMAIN cmds}] :
        \A n \in DOMAIN cmds : \E i \in 1..Len(l) : l[i] = cmds[n].metadata}

\* ---------------------------------------------------------------------------
\* The read/write lock of the router (CommandRouter.mu) and its callers
\* ---------------------------------------------------------------------------
NilRouter == 0

NoProc == "none"
Procs == {"g1", "g2", "g3"}

\* mu.Lock(): the writer announces itself, then waits for the readers to leave

\* mu.Unlock(): the readers that were waiting are let in
Unlock(m, p) == [m EXCEPT !.w = NoProc, !.held = FALSE, !.readers = m.blocked, !.blocked = {}]

\* mu.RLock(): a reader waits only behind a writer
\* A read lock that also waits for the other readers
RLockExclusive(m, p) ==
    IF m.w = NoProc /\ m.readers = {} THEN [m EXCEPT !.readers = m.readers \cup {p}]
    ELSE [m EXCEPT !.blocked = m.blocked \cup {p}]

RLock(m, p) ==
    IF m.w = NoProc THEN [m EXCEPT !.readers = m.readers \cup {p}]
    ELSE [m EXCEPT !.blocked = m.blocked \cup {p}]

RUnlock(m, p) == [m EXCEPT !.readers = m.readers \ {p}]

NoCmd == [metadata |-> NewMetadata(""), handler |-> NilHandler, argType |-> NoType]

Proc(pc, op, name, handler, found, cmd, err, n) ==
    [pc |-> pc, op |-> op, name |-> name, handler |-> handler, found |-> found,
     cmd |-> cmd, err |-> err, n |-> n, known |-> {}, r |-> 0, opts |-> << >>]

IdleProc == Proc("idle", "none", "", NilHandler, FALSE, NoCmd, NoError, 0)

\* ---------------------------------------------------------------------------
\* The gRPC Server (src/unnamed/part_002)
\* ---------------------------------------------------------------------------
\* sync.Once: "new" until a caller of Do starts f, "running" while f runs,
\* "done" from then on. The caller that finds it new runs f, the ones that
\* find it running wait for f to return, the ones that find it done go on.
OnceDoEveryTime(once) == "run"

OnceDo(once) ==
    CASE once = "new" -> "run"
      [] once = "running" -> "wait"
      [] once = "done" -> "skip"

\* A request: whether its tenant ID and plugin ID parse, its config ("none",
\* "json" or "garbage") and, for ExecuteCommand, whether each argument decodes
Request(op, tenantId, pluginId, config, args) ==
    [op |-> op, TenantId |-> tenantId, PluginId |-> pluginId, Config |-> config,
     Args |-> args]

NoReq == Request("none", TRUE, TRUE, "none", << >>)

\* A request in progress: pc, the request, the local shutdownErr, and the
\* invocations of the plugin it has made
InProgress(pc, req) == [pc |-> pc, req |-> req, shutdownErr |-> NoError, invoked |-> 0]

NoRequest == InProgress("idle", NoReq)

\* Response codes
NoCode == ""

\* A response with the transport-level error returned next to it. hasError
\* and hasData say which of Error and Data the response carries.
Response(req, code, message, success, hasData, invoked) ==
    [req |-> req, Code |-> code, Message |-> message, Success |-> success,
     hasError |-> code # NoCode, hasData |-> hasData, transportErr |-> NoError,
     invoked |-> invoked]

ErrorResponse(req, code, message, invoked) == Response(req, code, message, FALSE, FALSE, invoked)


\* The checks without the decoding of the config
ValidationIgnoringConfig(req, isCommandPlugin) ==
    IF ~req.TenantId THEN "INVALID_ARGUMENT"
    ELSE IF ~req.PluginId THEN "INVALID_ARGUMENT"
    ELSE IF req.op = "ExecuteCommand" /\ ~isCommandPlugin THEN "NOT_SUPPORTED"
    ELSE IF req.op = "ExecuteCommand" /\ \E i \in 1..Len(req.Args) : ~req.Args[i]
         THEN "INVALID_ARGUMENT"
    ELSE NoCode

\* The checks that come before the plugin is used: the first that fails
\* gives the response
Validation(req, isCommandPlugin) ==
    IF ~req.TenantId THEN "INVALID_ARGUMENT"
    ELSE IF ~req.PluginId THEN "INVALID_ARGUMENT"
    ELSE IF req.op = "InitializePlugin" /\ req.Config = "garbage" THEN "INVALID_ARGUMENT"
    ELSE IF req.op = "ExecuteCommand" /\ ~isCommandPlugin THEN "NOT_SUPPORTED"
    ELSE IF req.op = "ExecuteCommand" /\ \E i \in 1..Len(req.Args) : ~req.Args[i]
         THEN "INVALID_ARGUMENT"
    ELSE NoCode

\* ---------------------------------------------------------------------------
\* The calls a client makes
\* ---------------------------------------------------------------------------

Call(op, name, handler, opts, args) ==
    [op |-> op, name |-> name, handler |-> handler, opts |-> opts, args |-> args,
     err |-> NoError, result |-> NoResult, panicked |-> FALSE, calls |-> << >>,
     has |-> FALSE, count |-> 0, list |-> << >>, known |-> {},
     bound |-> NotBound, argsAfter |-> args, cause |-> NoError]

NoCall == Call("none", "", NilHandler, << >>, << >>)

\* w: the writer that has announced itself (NoProc when there is none);
\* held: whether that writer has the lock; readers: the callers holding the
\* lock for reading; blocked: the callers waiting in RLock.
\* The server and the plugin behind it: whether the plugin implements
\* CommandPlugin, the once-guards and initErr, how often Initialize and
\* Shutdown were invoked and what they returned, and the requests received
Init ==
    LET NoServer ==
            [created |-> FALSE, commandPlugin |-> FALSE,
             initOnce |-> "new", initErr |-> NoError, shutdownOnce |-> "new",
             initCalls |-> 0, initReturned |-> << >>,
             shutdownCalls |-> 0, shutdownReturned |-> << >>,
             requests |-> 0]
    IN  /\ commands = NewCommandRouter
        /\ last = NoCall
        /\ okRegs = << >>
        /\ mu = ([w |-> NoProc, held |-> FALSE, readers |-> {}, blocked |-> {}])
        /\ procs = [p \in Procs |-> IdleProc]
        /\ original = [n \in {} |-> NewMetadata(n)]
        /\ held = {}
        /\ router = NilRouter
        /\ routers = << >>
        /\ server = NoServer
        /\ reqs = [p \in Procs |-> NoRequest]
        /\ resp = (Response(NoReq, NoCode, "", FALSE, FALSE, 0))

\* The metadata each command was registered with
Registration(orig, name, r) ==
    IF r.err = NoError /\ ~r.panicked
    THEN [n \in DOMAIN orig \cup {name} |->
             IF n = name THEN r.cmds[name].metadata ELSE orig[n]]
    ELSE orig

RegisterCall(name, handler, opts) ==
    LET r == RegisterResult(commands, name, handler, opts) IN
    /\ commands' = r.cmds
    /\ last' = [Call("Register", name, handler, opts, << >>) EXCEPT
                    !.err = r.err, !.panicked = r.panicked]
    /\ okRegs' = IF r.err = NoError /\ ~r.panicked THEN Append(okRegs, name) ELSE okRegs
    /\ original' = Registration(original, name, r)

Register(name, handler, opts) ==
    /\ RegisterCall(name, handler, opts)
    /\ UNCHANGED others

Route(command, args, ret, herr) ==
    LET o == RouteResult(commands, command, args, ret, herr) IN
    /\ last' = [Call("Route", command, NilHandler, << >>, args) EXCEPT
                    !.err = o.err, !.result = o.result, !.panicked = o.panicked,
                    !.calls = o.calls, !.bound = o.bound,
                    !.argsAfter = ArgsAfter(args, o.bound), !.cause = o.cause]
    /\ UNCHANGED <<commands, okRegs, original>>
    /\ UNCHANGED others

GetCommands ==
    /\ \E l \in Listings(commands) :
          last' = [Call("GetCommands", "", NilHandler, << >>, << >>) EXCEPT !.list = l]
    /\ UNCHANGED <<commands, okRegs, original>>
    /\ UNCHANGED others

HasCommandCall(name) ==
    /\ last' = [Call("HasCommand", name, NilHandler, << >>, << >>) EXCEPT
                    !.has = HasCommand(commands, name)]
    /\ UNCHANGED <<commands, okRegs, original>>
    /\ UNCHANGED others

CommandCountCall ==
    /\ last' = [Call("CommandCount", "", NilHandler, << >>, << >>) EXCEPT
                    !.count = CommandCount(commands)]
    /\ UNCHANGED <<commands, okRegs, original>>
    /\ UNCHANGED others

\* ---------------------------------------------------------------------------
\* Callers that keep what they passed in or got back
\* ---------------------------------------------------------------------------
MetadataFields == {"Parameters", "Examples", "ReturnType"}

\* Register(name, handler, WithParameters(ps...), WithExamples(es...)) by a
\* caller that keeps ps and es
\* held: the <<command, field>> pairs of which a caller can still reach the
\* storage the registry's metadata uses: the backing array of the slice it
\* spread into WithParameters or WithExamples (the option stores that very
\* slice), and the arrays and the ReturnType pointer of the metadata copies
\* that GetCommands returned.
RegisterKeepingSlices(name, handler, opts) ==
    LET StoredSlices ==
            LET OptionOf(field) == IF field = "Parameters" THEN "WithParameters" ELSE "WithExamples"
            IN
                    {<<name, f>> : f \in {g \in ({"Parameters", "Examples"}) :
                                              \E i \in 1..Len(opts) : opts[i].opt = OptionOf(g)}}
    IN  /\ RegisterCall(name, handler, opts)
        /\ held' = IF name \notin DOMAIN commands /\ name \in DOMAIN commands'
                   THEN held \cup StoredSlices ELSE held
        /\ UNCHANGED <<mu, procs, router, routers>>
        /\ UNCHANGED grpc

\* GetCommands by a caller that keeps the returned metadata
GetCommandsKeepingResult ==
    /\ \E l \in Listings(commands) :
          last' = [Call("GetCommands", "", NilHandler, << >>, << >>) EXCEPT !.list = l]
    /\ held' = held \cup ((DOMAIN commands) \X MetadataFields)
    /\ UNCHANGED <<commands, okRegs, original, mu, procs, router, routers>>
    /\ UNCHANGED grpc

\* What the caller's assignment through its own reference leaves in the
\* metadata: ps[0].Name = "z", es[0] = edited, or md.ReturnType.Name = edited
CallerWrites(name, field) ==
    LET m == commands[name].metadata IN
    /\ <<name, field>> \in held
    /\ CASE field = "Parameters" -> Len(m.Parameters) > 0
         [] field = "Examples" -> Len(m.Examples) > 0
         [] field = "ReturnType" -> m.ReturnType.set
    /\ commands' = [commands EXCEPT ![name].metadata =
                        CASE field = "Parameters" -> [m EXCEPT !.Parameters[1].Name = "z"]
                          [] field = "Examples" -> [m EXCEPT !.Examples[1] = "edited"]
                          [] field = "ReturnType" -> [m EXCEPT !.ReturnType.Name = "edited"]]
    /\ UNCHANGED <<last, okRegs, original, held, mu, procs, router, routers>>
    /\ UNCHANGED grpc

\* ---------------------------------------------------------------------------
\* The same calls made by concurrent callers, one lock operation at a time
\* ---------------------------------------------------------------------------
MaxCalls == 3

SetProc(p, rec) == [procs EXCEPT ![p] = rec]

\* The calls made so far, finished or in progress
RECURSIVE CallsMade(_)
CallsMade(P) ==
    IF P = {} THEN 0
    ELSE LET p == CHOOSE q \in P : TRUE IN
         procs[p].n + (IF procs[p].pc = "idle" THEN 0 ELSE 1) + CallsMade(P \ {p})

CanCall(p) == procs[p].pc = "idle" /\ CallsMade(Procs) < MaxCalls

\* A caller after its call has returned: the call's locals are gone
Returned(p) == [IdleProc EXCEPT !.n = procs[p].n + 1]

\* The call of p as it returns err to its caller
ReturnedCall(p, err) ==
    [Call(procs[p].op, procs[p].name, procs[p].handler, procs[p].opts, << >>) EXCEPT
        !.err = err]

\* Line 115: Route gives the lock back as soon as it has looked the command up
RouteReleaseDeferred(m, p) == m

RouteRelease(m, p) == RUnlock(m, p)

\* Register, line 51: mu.Lock() is entered
RegisterLockWith(p, name, handler, opts) ==
    /\ CanCall(p)
    /\ mu.w = NoProc
    /\ mu' = [mu EXCEPT !.w = p]
    /\ procs' = SetProc(p, [Proc("reg_wait", "Register", name, handler, FALSE, NoCmd,
                                 NoError, procs[p].n) EXCEPT !.opts = opts])
    /\ UNCHANGED <<original, commands, last, okRegs>>
    /\ UNCHANGED outside

\* Register, line 51: mu.Lock() returns once the readers have left
RegisterLocked(p) ==
    /\ procs[p].pc = "reg_wait"
    /\ mu.w = p /\ ~mu.held /\ mu.readers = {}
    /\ mu' = [mu EXCEPT !.held = TRUE]
    /\ procs' = SetProc(p, [procs[p] EXCEPT !.pc = "reg_in"])
    /\ UNCHANGED <<original, commands, last, okRegs>>
    /\ UNCHANGED outside

\* Register, lines 54-108, with the lock held
RegisterBody(p) ==
    /\ procs[p].pc = "reg_in"
    /\ LET r == RegisterResult(commands, procs[p].name, procs[p].handler, procs[p].opts) IN
       /\ commands' = r.cmds
       /\ okRegs' = IF r.err = NoError /\ ~r.panicked
                     THEN Append(okRegs, procs[p].name) ELSE okRegs
       /\ procs' = SetProc(p, [procs[p] EXCEPT !.pc = "reg_unlock", !.err = r.err])
       /\ original' = Registration(original, procs[p].name, r)
    /\ UNCHANGED <<last, mu>>
    /\ UNCHANGED outside

\* Register, line 52: the deferred mu.Unlock() and the return
RegisterUnlock(p) ==
    /\ procs[p].pc = "reg_unlock"
    /\ mu' = Unlock(mu, p)
    /\ procs' = SetProc(p, Returned(p))
    /\ last' = ReturnedCall(p, procs[p].err)
    /\ UNCHANGED <<original, commands, okRegs>>
    /\ UNCHANGED outside

\* Route, line 113: mu.RLock() is entered
RouteRLock(p, command) ==
    /\ CanCall(p)
    /\ mu' = RLock(mu, p)
    /\ procs' = SetProc(p, Proc("route_rlock", "Route", command, NilHandler, FALSE, NoCmd,
                                NoError, procs[p].n))
    /\ UNCHANGED <<original, commands, last, okRegs>>
    /\ UNCHANGED outside

\* Route, lines 114-119: the lookup, mu.RUnlock(), and the return for an
\* unknown command
RouteLookup(p) ==
    /\ procs[p].pc = "route_rlock"
    /\ p \in mu.readers
    /\ mu' = RouteRelease(mu, p)
    /\ LET exists == procs[p].name \in DOMAIN commands IN
       IF exists
       THEN /\ procs' = SetProc(p, [procs[p] EXCEPT !.pc = "route_invoke", !.found = TRUE,
                                                    !.cmd = commands[procs[p].name]])
            /\ UNCHANGED last
       ELSE /\ procs' = SetProc(p, Returned(p))
            /\ last' = ReturnedCall(p, "unknown command")
    /\ UNCHANGED <<original, commands, okRegs>>
    /\ UNCHANGED outside

\* Route, line 121: invokeHandler returns (a handler may also never return)
RouteInvoked(p, ret, herr) ==
    /\ procs[p].pc = "route_invoke"
    /\ LET o == invokeHandler(procs[p].cmd, << >>, ret, herr) IN
       /\ procs' = SetProc(p, Returned(p))
       /\ last' = [ReturnedCall(p, o.err) EXCEPT !.result = o.result,
                      !.panicked = o.panicked, !.calls = o.calls]
    /\ UNCHANGED <<original, commands, okRegs, mu>>
    /\ UNCHANGED outside

ObserverRLock(p, op, name) ==
    /\ CanCall(p)
    /\ mu' = RLock(mu, p)
    /\ procs' = SetProc(p, Proc("obs_rlock", op, name, NilHandler, FALSE, NoCmd,
                                NoError, procs[p].n))
    /\ UNCHANGED <<original, commands, last, okRegs>>
    /\ UNCHANGED outside

\* GetCommands, HasCommand, CommandCount: the read, the deferred
\* mu.RUnlock() and the return
ObserverReturn(p) ==
    /\ procs[p].pc = "obs_rlock"
    /\ p \in mu.readers
    /\ mu' = RUnlock(mu, p)
    /\ procs' = SetProc(p, Returned(p))
    /\ \E l \in Listings(commands) :
          last' = [ReturnedCall(p, NoError) EXCEPT
                      !.has = procs[p].op = "HasCommand" /\ HasCommand(commands, procs[p].name),
                      !.count = IF procs[p].op = "CommandCount" THEN CommandCount(commands) ELSE 0,
                      !.list = IF procs[p].op = "GetCommands" THEN l ELSE << >>]
    /\ UNCHANGED <<original, commands, okRegs>>
    /\ UNCHANGED outside

\* ---------------------------------------------------------------------------
\* BasePlugin: RegisterCommand, ExecuteCommand and GetCommands
\* ---------------------------------------------------------------------------
\* router is the field BasePlugin.router (NilRouter, or the index in routers
\* of the CommandRouter it points to); routers are the CommandRouters made
\* so far. The field is read and written without synchronisation: each read
\* and each write is a step of its own, and a caller that has loaded the
\* field may go on with the value it loaded or load it again.
PluginOps == {"RegisterCommand", "ExecuteCommand", "GetCommands"}

Acknowledged == {okRegs[i] : i \in 1..Len(okRegs)}

PluginProc(pc, p, op, name, handler) ==
    [Proc(pc, op, name, handler, FALSE, NoCmd, NoError, procs[p].n) EXCEPT
        !.known = Acknowledged, !.r = router]

PluginReturn(p, err) ==
    [Call(procs[p].op, procs[p].name, procs[p].handler, << >>, << >>) EXCEPT
        !.err = err, !.known = procs[p].known]

\* "if p.router == nil": the field is loaded and compared
PluginEnter(p, op, name, handler) ==
    /\ CanCall(p)
    /\ IF router # NilRouter
       THEN /\ procs' = SetProc(p, PluginProc("plugin_call", p, op, name, handler))
            /\ UNCHANGED last
       ELSE IF op = "GetCommands"
       THEN /\ procs' = SetProc(p, Returned(p))
            /\ last' = [Call(op, name, handler, << >>, << >>) EXCEPT !.known = Acknowledged]
       ELSE /\ procs' = SetProc(p, PluginProc("plugin_new", p, op, name, handler))
            /\ UNCHANGED last
    /\ UNCHANGED <<commands, okRegs, original, mu, held, router, routers>>
    /\ UNCHANGED grpc

\* "p.router = NewCommandRouter()"
PluginNew(p) ==
    /\ procs[p].pc = "plugin_new"
    /\ routers' = Append(routers, NewCommandRouter)
    /\ router' = Len(routers) + 1
    /\ procs' = SetProc(p, [procs[p] EXCEPT !.pc = "plugin_call", !.r = Len(routers) + 1])
    /\ UNCHANGED <<commands, last, okRegs, original, mu, held>>
    /\ UNCHANGED grpc

\* "return p.router.Register(...)", ".Route(...)", ".GetCommands()"
PluginCall(p, ret, herr) ==
    /\ procs[p].pc = "plugin_call"
    /\ \E r \in {router, procs[p].r} :
          CASE procs[p].op = "RegisterCommand" ->
                 LET res == RegisterResult(routers[r], procs[p].name, procs[p].handler, << >>) IN
                 /\ routers' = [routers EXCEPT ![r] = res.cmds]
                 /\ okRegs' = IF res.err = NoError /\ ~res.panicked
                               THEN Append(okRegs, procs[p].name) ELSE okRegs
                 /\ last' = [PluginReturn(p, res.err) EXCEPT !.panicked = res.panicked]
            [] procs[p].op = "ExecuteCommand" ->
                 LET o == RouteResult(routers[r], procs[p].name, << >>, ret, herr) IN
                 /\ last' = [PluginReturn(p, o.err) EXCEPT !.result = o.result,
                                !.panicked = o.panicked, !.calls = o.calls]
                 /\ UNCHANGED <<routers, okRegs>>
            [] procs[p].op = "GetCommands" ->
                 /\ \E l \in Listings(routers[r]) :
                       last' = [PluginReturn(p, NoError) EXCEPT !.list = l]
                 /\ UNCHANGED <<routers, okRegs>>
    /\ procs' = SetProc(p, Returned(p))
    /\ UNCHANGED <<commands, original, mu, held, router>>
    /\ UNCHANGED grpc

\* ---------------------------------------------------------------------------
\* The gRPC Server: its requests, one step of the code at a time
\* ---------------------------------------------------------------------------
MaxRequests == 3

SetReq(p, r) == [reqs EXCEPT ![p] = r]

routerState == <<commands, last, okRegs, mu, procs, original, held, router, routers>>

\* NewServer(plugin)
NewServer(isCommandPlugin) ==
    /\ ~server.created
    /\ server' = [server EXCEPT !.created = TRUE, !.commandPlugin = isCommandPlugin]
    /\ UNCHANGED <<reqs, resp>>
    /\ UNCHANGED routerState

\* A request arrives and is validated; an invalid one is answered at once
Receive(p, req) ==
    /\ server.created
    /\ reqs[p].pc = "idle"
    /\ server.requests < MaxRequests
    /\ LET code == Validation(req, server.commandPlugin) IN
       IF code # NoCode
       THEN /\ resp' = ErrorResponse(req, code, "invalid", 0)
            /\ UNCHANGED reqs
       ELSE /\ reqs' = SetReq(p, InProgress(IF req.op = "ExecuteCommand" THEN "execute"
                                                                        ELSE "once", req))
            /\ UNCHANGED resp
    /\ server' = [server EXCEPT !.requests = @ + 1]
    /\ UNCHANGED routerState

\* InitializePlugin, line 283: s.initOnce.Do is entered
InitOnceDo(p) ==
    /\ reqs[p].pc = "once"
    /\ reqs[p].req.op = "InitializePlugin"
    /\ LET do == OnceDo(server.initOnce) IN
       /\ do # "wait"
       /\ IF do = "run"
          THEN /\ server' = [server EXCEPT !.initOnce = "running", !.initCalls = @ + 1]
               /\ reqs' = SetReq(p, [reqs[p] EXCEPT !.pc = "in_plugin", !.invoked = @ + 1])
          ELSE /\ reqs' = SetReq(p, [reqs[p] EXCEPT !.pc = "respond"])
               /\ UNCHANGED server
    /\ UNCHANGED resp
    /\ UNCHANGED routerState

\* Line 285: Initialize returns, its error is stored in s.initErr, Do is over
InitializeReturns(p, err) ==
    /\ reqs[p].pc = "in_plugin"
    /\ reqs[p].req.op = "InitializePlugin"
    /\ server' = [server EXCEPT !.initOnce = "done", !.initErr = err,
                                 !.initReturned = Append(@, err)]
    /\ reqs' = SetReq(p, [reqs[p] EXCEPT !.pc = "respond"])
    /\ UNCHANGED resp
    /\ UNCHANGED routerState

\* Lines 288-299: the response is made from s.initErr
InitializeResponds(p) ==
    /\ reqs[p].pc = "respond"
    /\ reqs[p].req.op = "InitializePlugin"
    /\ resp' = IF server.initErr # NoError
               THEN ErrorResponse(reqs[p].req, "INITIALIZATION_ERROR", server.initErr,
                                  reqs[p].invoked)
               ELSE Response(reqs[p].req, NoCode, "", TRUE, FALSE, reqs[p].invoked)
    /\ reqs' = SetReq(p, NoRequest)
    /\ UNCHANGED server
    /\ UNCHANGED routerState

\* ShutdownPlugin, line 325: s.shutdownOnce.Do is entered
ShutdownOnceDo(p) ==
    /\ reqs[p].pc = "once"
    /\ reqs[p].req.op = "ShutdownPlugin"
    /\ LET do == OnceDo(server.shutdownOnce) IN
       /\ do # "wait"
       /\ IF do = "run"
          THEN /\ server' = [server EXCEPT !.shutdownOnce = "running",
                                            !.shutdownCalls = @ + 1]
               /\ reqs' = SetReq(p, [reqs[p] EXCEPT !.pc = "in_plugin", !.invoked = @ + 1])
          ELSE /\ reqs' = SetReq(p, [reqs[p] EXCEPT !.pc = "respond"])
               /\ UNCHANGED server
    /\ UNCHANGED resp
    /\ UNCHANGED routerState

\* Line 327: Shutdown returns, its error is stored in the local shutdownErr
\* of the request that ran it
ShutdownReturns(p, err) ==
    /\ reqs[p].pc = "in_plugin"
    /\ reqs[p].req.op = "ShutdownPlugin"
    /\ server' = [server EXCEPT !.shutdownOnce = "done",
                                 !.shutdownReturned = Append(@, err)]
    /\ reqs' = SetReq(p, [reqs[p] EXCEPT !.pc = "respond", !.shutdownErr = err])
    /\ UNCHANGED resp
    /\ UNCHANGED routerState

\* Lines 330-341: the response is made from the local shutdownErr
ShutdownResponds(p) ==
    /\ reqs[p].pc = "respond"
    /\ reqs[p].req.op = "ShutdownPlugin"
    /\ resp' = IF reqs[p].shutdownErr # NoError
               THEN ErrorResponse(reqs[p].req, "SHUTDOWN_ERROR", reqs[p].shutdownErr,
                                  reqs[p].invoked)
               ELSE Response(reqs[p].req, NoCode, "", TRUE, FALSE, reqs[p].invoked)
    /\ reqs' = SetReq(p, NoRequest)
    /\ UNCHANGED server
    /\ UNCHANGED routerState

\* ExecuteCommand, line 144: the plugin's ExecuteCommand is invoked
ExecuteInvokes(p) ==
    /\ reqs[p].pc = "execute"
    /\ reqs' = SetReq(p, [reqs[p] EXCEPT !.pc = "in_plugin", !.invoked = @ + 1])
    /\ UNCHANGED <<server, resp>>
    /\ UNCHANGED routerState

\* A response that carries the result next to the error
ExecuteResponseWithData(req, result, err, invoked) ==
    IF err # NoError THEN Response(req, "EXECUTION_ERROR", err, FALSE, TRUE, invoked)
    ELSE IF result = "unencodable"
    THEN ErrorResponse(req, "SERIALIZATION_ERROR", "failed to marshal result", invoked)
    ELSE Response(req, NoCode, "", FALSE, TRUE, invoked)

\* Lines 147-179: the response for what the plugin returned
ExecuteResponse(req, result, err, invoked) ==
    IF err # NoError THEN ErrorResponse(req, "EXECUTION_ERROR", err, invoked)
    ELSE IF result = "unencodable"
    THEN ErrorResponse(req, "SERIALIZATION_ERROR", "failed to marshal result", invoked)
    ELSE Response(req, NoCode, "", FALSE, TRUE, invoked)

\* Lines 144-179: the plugin's ExecuteCommand returns and the response is made
ExecuteReturns(p, result, err) ==
    /\ reqs[p].pc = "in_plugin"
    /\ reqs[p].req.op = "ExecuteCommand"
    /\ resp' = ExecuteResponse(reqs[p].req, result, err, reqs[p].invoked)
    /\ reqs' = SetReq(p, NoRequest)
    /\ UNCHANGED server
    /\ UNCHANGED routerState

\* ---------------------------------------------------------------------------
\* Specifications
\* ---------------------------------------------------------------------------
\* What an invoked handler returns is its own business: any first output
\* (the type's zero value or a value) and any second output.
Rets == {"zero", "value"}
HandlerErrs == {NoError, "handler error"}

SpecParams ==
    <<ParameterMetadata("a", "int", FALSE, "1"), ParameterMetadata("b", "int", TRUE, NoValue)>>

\* Spec: one router used by its clients, with nil, non-function and function
\* handlers of up to the two inputs Register admits, over the context and
\* argument types the SDK documents.
MaxHandlerInputs == 2

Next ==
    \/ \E n \in Names,
          h \in {NilHandler, IntHandler}
                   \cup {Func(i, o) :
                            i \in SeqsUpTo({"*sdk.Context", "*Args"}, MaxHandlerInputs),
                            o \in {<<"interface{}">>, <<"interface{}", "error">>}},
          o \in {<< >>, <<WithDescription("d"), WithParameters(SpecParams)>>} :
             Register(n, h, o)
    \/ \E n \in Names,
          a \in SeqsUpTo({ScalarArg("5"), MapArg([EmptyObject EXCEPT !["b"] = "5"])}, MaxArgs),
          ret \in Rets, herr \in HandlerErrs :
             Route(n, a, ret, herr)
    \/ GetCommands
    \/ \E n \in Names : HasCommandCall(n)
    \/ CommandCountCall

Spec == Init /\ [][Next]_vars

\* SpecSig: a fresh router on which one handler of any signature is
\* registered and then routed to.
NextSig ==
    \/ /\ last = NoCall
       /\ \E h \in {NilHandler, IntHandler}
                   \cup {Func(i, o) :
                            i \in SeqsUpTo({"*sdk.Context", "*other.Context", "*Args", "Args"}, MaxIn),
                            o \in SeqsUpTo({"interface{}", "*R", "string", "R", "error"}, MaxOut)} :
             Register("play", h, <<WithParameters(SpecParams)>>)
    \/ \E a \in {<< >>, <<MapArg([EmptyObject EXCEPT !["b"] = "5"])>>}
                   \cup {<<ScalarArg(s)>> : s \in {"1", "5", "x", "chan"}},
          ret \in Rets, herr \in HandlerErrs :
             Route("play", a, ret, herr)

SpecSig == Init /\ [][NextSig]_vars

\* SpecConc: three callers use one router concurrently, each step being one
\* lock operation or one critical section of the code.
ConcHandlers == {Func(<<"*sdk.Context">>, <<"interface{}", "error">>)}

\* GetCommands, HasCommand, CommandCount: mu.RLock() is entered
LockSteps(p) ==
    \/ \E n \in Names, h \in ConcHandlers : RegisterLockWith(p, n, h, << >>)
    \/ RegisterLocked(p)
    \/ RegisterBody(p)
    \/ RegisterUnlock(p)
    \/ \E n \in Names : RouteRLock(p, n)
    \/ RouteLookup(p)
    \/ \E n \in Names : ObserverRLock(p, "HasCommand", n)
    \/ \E op \in {"GetCommands", "CommandCount"} : ObserverRLock(p, op, "")
    \/ ObserverReturn(p)

NextConc ==
    \/ \E p \in Procs : LockSteps(p)
    \/ \E p \in Procs, ret \in Rets, herr \in HandlerErrs : RouteInvoked(p, ret, herr)

SpecConc == Init /\ [][NextConc]_vars

\* The scheduler runs every caller that is not inside a handler; a handler
\* may run forever.
SpecConcFair == SpecConc /\ \A p \in Procs : WF_vars(LockSteps(p))

\* SpecMeta: a fresh router on which one command is registered with any
\* list of options and then listed.
MaxOpts == 3

OtherParams == <<ParameterMetadata("b", "int", FALSE, "5")>>

MetaOptLists ==
    LET MetaOptions ==
            {WithDescription("d1"), WithDescription("d2"),
             WithParameters(SpecParams), WithParameters(OtherParams),
             WithReturnType("R1", "schema1"), WithReturnType("R2", "schema2"),
             WithExamples(<<"example1">>), WithExamples(<<"example2", "example3">>)}
    IN  SeqsUpTo(MetaOptions, MaxOpts)

NextMeta ==
    \/ /\ last = NoCall
       /\ \E o \in MetaOptLists :
             Register("play", Func(<<"*sdk.Context", "*Args">>, <<"interface{}", "error">>), o)
    \/ GetCommands

SpecMeta == Init /\ [][NextMeta]_vars

\* SpecAlias: callers that register with slices they keep, keep what
\* GetCommands returned, and later assign through what they kept.
NextAlias ==
    \/ \E n \in Names,
          h \in {Func(<<"*sdk.Context", "*Args">>, <<"interface{}", "error">>)},
          o \in {<< >>, <<WithParameters(SpecParams)>>,
                  <<WithExamples(<<"example1">>), WithReturnType("R1", "schema1")>>} :
          RegisterKeepingSlices(n, h, o)
    \/ GetCommandsKeepingResult
    \/ \E n \in Names, f \in MetadataFields : CallerWrites(n, f)
    \/ \E n \in Names, ret \in Rets : Route(n, <<ScalarArg("5")>>, ret, NoError)

SpecAlias == Init /\ [][NextAlias]_vars

\* SpecBase: concurrent callers of one BasePlugin, created by NewBasePlugin
\* or as the zero value of a plugin struct that embeds it.
NewBasePlugin ==
    /\ last = NoCall
    /\ router = NilRouter
    /\ routers = << >>
    /\ \A p \in Procs : procs[p] = IdleProc
    /\ routers' = <<NewCommandRouter>>
    /\ router' = 1
    /\ last' = Call("NewBasePlugin", "", NilHandler, << >>, << >>)
    /\ UNCHANGED <<commands, okRegs, original, mu, procs, held>>
    /\ UNCHANGED grpc

NextBase ==
    \/ NewBasePlugin
    \/ \E p \in Procs, op \in PluginOps \ {"GetCommands"}, n \in Names, h \in ConcHandlers :
          PluginEnter(p, op, n, h)
    \/ \E p \in Procs : PluginEnter(p, "GetCommands", "", NilHandler)
    \/ \E p \in Procs : PluginNew(p)
    \/ \E p \in Procs, ret \in Rets, herr \in HandlerErrs : PluginCall(p, ret, herr)

SpecBase == Init /\ [][NextBase]_vars

\* SpecBind: one command registered with any declared parameters (names
\* unique within the command) on a fresh router, then routed with any
\* argument list.
MaxParams == 2

BindParamLists ==
    LET BindParams ==
            {ParameterMetadata("a", "int", FALSE, "1"),
             ParameterMetadata("b", "int", TRUE, NoValue), ParameterMetadata("b", "int", FALSE, "5"),
             ParameterMetadata("z", "string", FALSE, "x")}
    IN  {pl \in SeqsUpTo(BindParams, MaxParams) :
            \A i, j \in 1..Len(pl) : pl[i].Name = pl[j].Name => i = j}

BindArgLists ==
    LET BindArgValues ==
            {ScalarArg("5"), ScalarArg("x"),
             MapArg([EmptyObject EXCEPT !["b"] = "5"]),
             MapArg([EmptyObject EXCEPT !["a"] = "1", !["z"] = "x"])}
    IN  SeqsUpTo(BindArgValues, MaxArgs)

NextBind ==
    \/ /\ last = NoCall
       /\ \E h \in {Func(<<"*sdk.Context", "*Args">>, <<"interface{}", "error">>),
                   Func(<<"*sdk.Context", "Args">>, <<"interface{}", "error">>),
                   Func(<<"*sdk.Context">>, <<"interface{}", "error">>)},
             pl \in BindParamLists :
             Register("play", h, <<WithParameters(pl)>>)
    \/ \E a \in BindArgLists, ret \in Rets : Route("play", a, ret, NoError)

SpecBind == Init /\ [][NextBind]_vars

\* SpecRound: a command taking a pointer to a shape is routed with the keyed
\* object made of the fields of a value of that shape.
Shapes == {"Args", "Item"}

\* The values of a shape
ShapeValues(t) ==
    LET FieldValues(kind) ==
            CASE kind = "int" -> Ints
              [] kind = "any" -> {NoValue, "x", "5", "f5"}
              [] OTHER -> {Absent}
    IN  {[type |-> t, f |-> f] : f \in {g \in [Keys -> Ints \cup {NoValue, "x", "f5", Absent}] :
                                           \A k \in Keys : g[k] \in FieldValues(FieldKind(t, k))}}

\* The keyed object whose keys and values are the fields of v
FieldsOf(v) == v.f

NextRound ==
    \/ /\ last = NoCall
       /\ \E t \in Shapes :
             Register("play", Func(<<"*sdk.Context", PtrTo(t)>>, <<"interface{}", "error">>), << >>)
    \/ \E t \in Shapes : \E v \in ShapeValues(t), ret \in Rets, herr \in HandlerErrs :
          Route("play", <<MapArg(FieldsOf(v))>>, ret, herr)

SpecRound == Init /\ [][NextRound]_vars

\* SpecRace: the callers register concurrently under one fresh name, each
\* with a handler and a description of its own, while others route to that
\* name and count the commands.
RaceHandler(p) ==
    CASE p = "g1" -> Func(<<"*sdk.Context">>, <<"interface{}", "error">>)
      [] p = "g2" -> Func(<<"*sdk.Context", "*Args">>, <<"interface{}", "error">>)
      [] p = "g3" -> Func(<<"*sdk.Context">>, <<"*R", "error">>)

RaceOptions(p) == <<WithDescription(p), WithParameters(SpecParams)>>

RaceSteps(p) ==
    \/ RegisterLockWith(p, "play", RaceHandler(p), RaceOptions(p))
    \/ RegisterLocked(p)
    \/ RegisterBody(p)
    \/ RegisterUnlock(p)
    \/ ObserverRLock(p, "CommandCount", "")
    \/ ObserverReturn(p)
    \/ RouteRLock(p, "play")
    \/ RouteLookup(p)

NextRace ==
    \/ \E p \in Procs : RaceSteps(p)
    \/ \E p \in Procs, ret \in Rets, herr \in HandlerErrs : RouteInvoked(p, ret, herr)

SpecRace == Init /\ [][NextRace]_vars

\* SpecServer: one Server receives InitializePlugin, ShutdownPlugin and
\* ExecuteCommand requests, valid and invalid, concurrently.
MaxReqArgs == 2

Requests ==
    {Request("InitializePlugin", t, i, c, << >>) :
        t \in BOOLEAN, i \in BOOLEAN, c \in {"none", "json", "garbage"}}
    \cup {Request("ShutdownPlugin", t, i, "none", << >>) : t \in BOOLEAN, i \in BOOLEAN}
    \cup {Request("ExecuteCommand", t, i, "none", a) :
            t \in BOOLEAN, i \in BOOLEAN, a \in SeqsUpTo(BOOLEAN, MaxReqArgs)}

\* The steps of a goroutine that serves requests. The plugin's Initialize and
\* Shutdown return an error or none; its ExecuteCommand returns a result
\* that json.Marshal can encode or one it cannot, and an error or none.
ServerSteps(p) ==
    \/ \E req \in Requests : Receive(p, req)
    \/ InitOnceDo(p)
    \/ \E err \in {NoError, "init failed"} : InitializeReturns(p, err)
    \/ InitializeResponds(p)
    \/ ShutdownOnceDo(p)
    \/ \E err \in {NoError, "shutdown failed"} : ShutdownReturns(p, err)
    \/ ShutdownResponds(p)
    \/ ExecuteInvokes(p)
    \/ \E result \in {"value", "unencodable"}, err \in {NoError, "plugin failed"} :
          ExecuteReturns(p, result, err)

\* The goroutines that serve the requests
NextServer ==
    \/ \E c \in BOOLEAN : NewServer(c)
    \/ \E p \in ({"g1", "g2"}) : ServerSteps(p)

SpecServer == Init /\ [][NextServer]_vars

\* ---------------------------------------------------------------------------
\* Properties
\* ---------------------------------------------------------------------------
Registered == DOMAIN commands

\* C1: a Register on a name that is already in the registry, with any handler
\* (valid, invalid or nil), returns the "already registered" error and leaves
\* the record stored under the name and the command count as they were.
C1_DuplicateRejected ==
    [][(last'.op = "Register" /\ last'.name \in Registered)
          => /\ last'.err = "command already registered"
             /\ ~last'.panicked
             /\ commands'[last'.name] = commands[last'.name]
             /\ CommandCount(commands') = CommandCount(commands)]_vars

C1_Witness ==
    /\ last.op = "Register"
    /\ last.err = "command already registered"
    /\ last.handler.kind = "nil"
    /\ commands[last.name].handler.kind = "func"

C3_ObserversAgree ==
    LET RegisteredOk == {okRegs[i] : i \in 1..Len(okRegs)}
    IN  /\ \A n \in Names : HasCommand(commands, n) <=> n \in RegisteredOk
        /\ CommandCount(commands) = Len(okRegs)
        /\ last.op = "HasCommand" => (last.has <=> last.name \in RegisteredOk)
        /\ last.op = "CommandCount" => last.count = Len(okRegs)
        /\ last.op = "GetCommands" =>
              /\ Len(last.list) = Len(okRegs)
              /\ \A n \in RegisteredOk :
                    Cardinality({i \in 1..Len(last.list) : last.list[i].Name = n}) = 1

C3_Witness ==
    /\ last.op = "GetCommands"
    /\ Len(last.list) = 2
    /\ Len(okRegs) = 2

\* C4: routing a name that is not in the registry returns no result and the
\* "unknown command" error, whatever the arguments, and invokes no handler.
C4_UnknownCommand ==
    (last.op = "Route" /\ last.name \notin Registered)
        => /\ last.err = "unknown command"
           /\ last.result = NoResult
           /\ last.calls = << >>
           /\ ~last.panicked

C4_Witness ==
    /\ last.op = "Route"
    /\ last.name \notin Registered
    /\ Registered # {}
    /\ Len(last.args) > 0
    /\ last.err = "unknown command"

\* C5: on a fresh name, Register rejects with an invalid-signature error every
\* function with zero inputs, three or more inputs, a number of outputs other
\* than two, or a second output that is not an error; it accepts and stores
\* every function with one or two inputs, *Context first, and two outputs of
\* which the second is an error.
C5_SignatureChecked ==
    (last.op = "Register" /\ last.handler.kind = "func")
        => LET h == last.handler IN
           /\ (\/ Len(h.ins) = 0
               \/ Len(h.ins) >= 3
               \/ Len(h.outs) # 2
               \/ h.outs[2] # "error")
                => /\ last.err \in InvalidSignature
                   /\ last.name \notin Registered
           /\ (/\ Len(h.ins) \in {1, 2}
               /\ h.ins[1] = "*sdk.Context"
               /\ Len(h.outs) = 2
               /\ h.outs[2] = "error")
                => /\ last.err = NoError
                   /\ last.name \in Registered
                   /\ commands[last.name].handler = h

C5_Witness ==
    /\ last.op = "Register"
    /\ last.handler.kind = "func"
    /\ Len(last.handler.ins) = 3
    /\ last.handler.ins[1] = "*sdk.Context"
    /\ Len(last.handler.outs) = 2
    /\ last.handler.outs[2] = "error"
    /\ last.err = "handler must have 1 or 2 inputs"

\* C6: Register rejects with an invalid-signature error every function whose
\* first input is not the SDK's *Context, and no such function is ever stored.
C6_FirstInputIsSdkContext ==
    /\ (/\ last.op = "Register"
        /\ last.handler.kind = "func"
        /\ Len(last.handler.ins) >= 1
        /\ last.handler.ins[1] # "*sdk.Context")
         => last.err \in InvalidSignature
    /\ \A n \in Registered : commands[n].handler.ins[1] = "*sdk.Context"

\* C7: a Register call that returns an error leaves the registry as it was:
\* same names, same records, same count, same HasCommand for the name.
C7_FailedRegisterNoEffect ==
    [][(last'.op = "Register" /\ last'.err # NoError)
          => /\ commands' = commands
             /\ CommandCount(commands') = CommandCount(commands)
             /\ HasCommand(commands', last'.name) <=> HasCommand(commands, last'.name)]_vars

C7_Witness ==
    /\ last.op = "Register"
    /\ last.err \in InvalidSignature
    /\ last.name \notin Registered
    /\ Registered # {}

\* C8: registration and argument binding always end by returning success or
\* an error to the caller, never by a panic, whatever the handler value
\* (nil and non-function values included) and whatever the argument list.
C8_NeverPanics ==
    last.op \in {"Register", "Route"} => ~last.panicked

\* C9: when the handler of a Route call has been invoked, Route returns the
\* handler's error as it is, and the handler's first output as result, or "no
\* result" when that output is the zero/nil of its type, whatever that type.
C9_OutputsNormalised ==
    (last.op = "Route" /\ last.calls # << >>)
        => /\ ~last.panicked
           /\ last.err = last.calls[1].herr
           /\ last.result = IF last.calls[1].ret = "zero" THEN NoResult ELSE "value"

\* C10: every accepted handler is callable: a handler whose second input is
\* declared directly as a struct is registered with that type as argument
\* shape, and a Route whose binding succeeds invokes it with the context and
\* an instance of exactly that type.
C10_StructArgCallable ==
    \A n \in Registered :
        LET h == commands[n].handler IN
        (Len(h.ins) = 2 /\ h.ins[1] = "*sdk.Context" /\ Kind(h.ins[2]) = "struct")
            => /\ commands[n].argType = h.ins[2]
               /\ (last.op = "Route" /\ last.name = n
                   /\ last.err \notin {"failed to marshal arguments",
                                        "failed to unmarshal arguments"})
                    => /\ ~last.panicked
                       /\ Len(last.calls) = 1
                       /\ last.calls[1].types = <<"*sdk.Context", h.ins[2]>>

\* C11: whenever an invoked handler returns a non-nil error, Route returns
\* that same error, unchanged, together with the handler's normalised first
\* output.
C11_HandlerErrorVerbatim ==
    (/\ last.op = "Route"
     /\ Len(last.calls) = 1
     /\ last.calls[1].herr = "handler error")
        => /\ ~last.panicked
           /\ last.err = "handler error"
           /\ last.result \in {NoResult, "value"}
           /\ last.calls[1].ret = "value" => last.result = "value"


\* C12: a caller whose handler is executing holds no lock, and every caller
\* that has entered the lock (to register or to look a command up) gets
\* through its critical section even if running handlers never return.
InHandler(p) == procs[p].pc = "route_invoke"

AtLock(p) == procs[p].pc \in {"reg_wait", "reg_in", "reg_unlock", "route_rlock", "obs_rlock"}

C12_LockFreeWhileHandlerRuns ==
    /\ [](\A p \in Procs :
            InHandler(p) => (p \notin mu.readers /\ p \notin mu.blocked /\ mu.w # p))
    /\ \A q \in Procs : AtLock(q) ~> ~AtLock(q)

C12_Witness ==
    \E p, q \in Procs :
        /\ InHandler(p)
        /\ procs[q].pc = "reg_in"
        /\ procs[q].name \notin DOMAIN commands

InsideRead(p) == procs[p].pc \in {"route_rlock", "obs_rlock"} /\ p \in mu.readers

\* C13: Register has the registry to itself while it holds the lock; the
\* readers share it, and a reader only ever waits behind a writer.
C13_ExclusiveWriteSharedRead ==
    LET InsideWrite(p) == procs[p].pc \in {"reg_in", "reg_unlock"}
    IN  /\ \A p \in Procs : InsideWrite(p) =>
              \A q \in Procs \ {p} : ~InsideWrite(q) /\ ~InsideRead(q)
        /\ \A p \in Procs :
              (procs[p].pc \in {"route_rlock", "obs_rlock"} /\ ~InsideRead(p)) => mu.w # NoProc

C13_Witness ==
    \E p, q \in Procs :
        /\ InsideRead(p) /\ procs[p].op = "Route"
        /\ InsideRead(q) /\ procs[q].op = "GetCommands"
        /\ \E r \in Procs : procs[r].pc = "reg_wait"

\* C14: the metadata stored by a successful Register is the default metadata
\* (name only) in which each field has the value given by the last option
\* that sets it; a later WithParameters replaces the earlier parameters.
LastOption(opts, kind) ==
    LET at == {i \in 1..Len(opts) : opts[i].opt = kind} IN
    IF at = {} THEN NoOption ELSE opts[CHOOSE i \in at : \A j \in at : j <= i]

C14_OptionsInOrder ==
    (last.op = "Register" /\ last.err = NoError /\ ~last.panicked)
        => LET m == commands[last.name].metadata IN
           /\ m.Name = last.name
           /\ m.Description = LastOption(last.opts, "WithDescription").desc
           /\ m.Parameters = LastOption(last.opts, "WithParameters").params
           /\ m.ReturnType = LastOption(last.opts, "WithReturnType").ret
           /\ m.Examples = LastOption(last.opts, "WithExamples").examples

C14_Witness ==
    /\ last.op = "Register"
    /\ last.err = NoError
    /\ Len(last.opts) = 3
    /\ last.opts[1] = WithParameters(SpecParams)
    /\ last.opts[3] = WithParameters(OtherParams)
    /\ commands[last.name].metadata.Parameters = OtherParams

\* C15: the metadata the registry holds for a command, and so what
\* GetCommands returns for it, is in every later state the metadata the
\* command was registered with.
C15_MetadataImmutable ==
    /\ \A n \in DOMAIN commands : commands[n].metadata = original[n]
    /\ last.op = "GetCommands" =>
          \A i \in 1..Len(last.list) : \E n \in DOMAIN original : last.list[i] = original[n]

\* C16: every command whose RegisterCommand had returned no error before
\* an ExecuteCommand or GetCommands call on the same BasePlugin began is
\* found by that ExecuteCommand and listed by that GetCommands.
C16_OneRegistry ==
    /\ (last.op = "ExecuteCommand" /\ last.name \in last.known) => last.err # "unknown command"
    /\ last.op = "GetCommands" =>
          \A n \in last.known : \E i \in 1..Len(last.list) : last.list[i].Name = n

\* C17: routed with a non-empty argument list whose first value is not a
\* keyed object, a command with an argument shape binds, for each declared
\* parameter at index i, its name to args[i] when there is one, else to its
\* default when there is one, else to nothing; values beyond the declared
\* parameters are not bound and cause no error.
HasArgShape(cmd) == cmd.argType # NoType /\ NumIn(cmd.handler) = 2

ExpectedBinding(params, args) ==
    [k \in Keys |->
        IF \E i \in 1..Len(params) : params[i].Name = k
        THEN LET i == CHOOSE j \in 1..Len(params) : params[j].Name = k IN
             IF i <= Len(args) THEN AsEntry(args[i])
             ELSE IF params[i].Default # NoValue THEN params[i].Default
             ELSE Absent
        ELSE Absent]

C17_PositionalZip ==
    LET Positional(args) == Len(args) > 0 /\ args[1].k # "map"
    IN  (/\ last.op = "Route"
         /\ last.name \in DOMAIN commands
         /\ HasArgShape(commands[last.name])
         /\ Positional(last.args))
            => LET params == commands[last.name].metadata.Parameters
                   expected == ExpectedBinding(params, last.args)
                   atMost == IF Len(last.args) > Len(params)
                             THEN SubSeq(last.args, 1, Len(params)) ELSE last.args
               IN /\ last.bound.built
                  /\ last.bound.m = expected
                  /\ last.bound.m = ExpectedBinding(params, atMost)
                  /\ last.err \in {"failed to marshal arguments", "failed to unmarshal arguments"}
                        => (MarshalFails(expected) \/
                            UnmarshalFails(expected, commands[last.name].argType))

C17_Witness ==
    /\ last.op = "Route"
    /\ last.name \in DOMAIN commands
    /\ HasArgShape(commands[last.name])
    /\ commands[last.name].metadata.Parameters =
          <<ParameterMetadata("a", "int", FALSE, "1"), ParameterMetadata("b", "int", TRUE, NoValue)>>
    /\ last.args = <<ScalarArg("5")>>
    /\ last.bound.m = [EmptyObject EXCEPT !["a"] = "5"]
    /\ Len(last.calls) = 1
    /\ last.calls[1].arg.f["a"] = "5"

\* C18: when the first raw value is a keyed object, that object is the
\* source object as it is: nothing is zipped, no declared default is added,
\* the values after the first make no difference, and the caller's object is
\* left as it was.
Keyed(args) == Len(args) > 0 /\ args[1].k = "map"

C18_KeyedObjectAsIs ==
    LET SameOutcome(o) ==
            /\ o.result = last.result
            /\ o.err = last.err
            /\ o.panicked = last.panicked
            /\ o.calls = last.calls
            /\ o.bound = last.bound
    IN  (/\ last.op = "Route"
         /\ last.name \in DOMAIN commands
         /\ HasArgShape(commands[last.name])
         /\ Keyed(last.args))
            => /\ last.bound.built
               /\ last.bound.m = last.args[1].m
               /\ last.argsAfter = last.args
               /\ \A i \in 1..Len(last.calls) :
                     last.calls[i].arg = Unmarshal(last.args[1].m, commands[last.name].argType)
               /\ \E ret \in Rets, herr \in HandlerErrs :
                     SameOutcome(RouteResult(commands, last.name, <<last.args[1]>>, ret, herr))

C18_Witness ==
    /\ last.op = "Route"
    /\ last.name \in DOMAIN commands
    /\ commands[last.name].metadata.Parameters =
          <<ParameterMetadata("a", "int", FALSE, "1"), ParameterMetadata("b", "int", TRUE, NoValue)>>
    /\ last.args = <<MapArg([EmptyObject EXCEPT !["b"] = "5"]), ScalarArg("x")>>
    /\ last.bound.m = [EmptyObject EXCEPT !["b"] = "5"]
    /\ Len(last.calls) = 1
    /\ last.calls[1].arg.f["a"] = "0"
    /\ last.calls[1].arg.f["b"] = "5"

\* C19: routing a registered command with an empty argument list invokes
\* the handler and yields no binding error: a handler without argument shape
\* gets the context only, whatever the argument list, and a handler with an
\* argument shape gets an instance with every field at its zero value, no
\* declared default applied.
BindingErrors == {"failed to marshal arguments", "failed to unmarshal arguments"}

C19_EmptyArgs ==
    (last.op = "Route" /\ last.name \in DOMAIN commands)
        => LET cmd == commands[last.name] IN
           /\ ~HasArgShape(cmd)
                 => /\ Len(last.calls) = 1
                    /\ last.calls[1].types = <<"*sdk.Context">>
                    /\ last.err \notin BindingErrors
           /\ (HasArgShape(cmd) /\ last.args = << >>)
                 => /\ Len(last.calls) = 1
                    /\ last.calls[1].arg = ZeroValue(cmd.argType)
                    /\ ~last.bound.built
                    /\ last.err \notin BindingErrors

\* The handlers whose second input is a pointer to the shape, or that have none
PointerShape(cmd) == NumIn(cmd.handler) = 2 => Kind(cmd.handler.ins[2]) = "ptr"

EmptyArgsPointerShape ==
    (last.op = "Route" /\ last.name \in DOMAIN commands /\ PointerShape(commands[last.name]))
        => C19_EmptyArgs

\* Every value bound to a field of the shape is one the field can take
Convertible(t, m) ==
    \A k \in Keys : (FieldKind(t, k) = "int" /\ m[k] # Absent) => m[k] \in {"0", "1", "5"}

\* C20: a required parameter without supplied value and without default,
\* and keys of the source object that match no field of the shape, never make
\* Route reject the call: the handler is invoked, the required field has the
\* shape's zero value, and the unknown keys are not in the instance.
C20_RequiredNotEnforced ==
    LET UnknownKeys(t, m) == {k \in Keys : m[k] # Absent /\ FieldKind(t, k) = Absent}
        MissingRequired(params, m) ==
            {params[i].Name : i \in {j \in 1..Len(params) :
                params[j].Required /\ params[j].Default = NoValue /\ m[params[j].Name] = Absent}}
    IN  (/\ last.op = "Route"
         /\ last.name \in DOMAIN commands
         /\ HasArgShape(commands[last.name])
         /\ last.bound.built
         /\ Convertible(commands[last.name].argType, last.bound.m))
            => LET cmd == commands[last.name]
                   missing == MissingRequired(cmd.metadata.Parameters, last.bound.m)
                   unknown == UnknownKeys(cmd.argType, last.bound.m)
               IN (missing \cup unknown # {})
                     => /\ last.err \notin BindingErrors
                        /\ Len(last.calls) = 1
                        /\ \A k \in missing :
                              FieldKind(cmd.argType, k) = "int" => last.calls[1].arg.f[k] = "0"
                        /\ \A k \in unknown : last.calls[1].arg.f[k] = Absent

RequiredNotEnforcedPointerShape ==
    (last.op = "Route" /\ last.name \in DOMAIN commands /\ PointerShape(commands[last.name]))
        => C20_RequiredNotEnforced

\* C21: when the source object cannot be converted into the target shape,
\* Route returns no result and the marshal or unmarshal error wrapping its
\* cause, and the handler is not invoked.
SourceObject(cmd, args) ==
    IF args[1].k = "map" THEN args[1].m ELSE ExpectedBinding(cmd.metadata.Parameters, args)

Unencodable(m) == \E k \in Keys : m[k] = "chan"

C21_ConversionFailure ==
    (/\ last.op = "Route"
     /\ last.name \in DOMAIN commands
     /\ HasArgShape(commands[last.name])
     /\ Len(last.args) > 0)
        => LET cmd == commands[last.name]
               m == SourceObject(cmd, last.args)
           IN /\ Unencodable(m)
                    => /\ last.err = "failed to marshal arguments"
                       /\ last.cause = "json: unsupported type"
              /\ (~Unencodable(m) /\ ~Convertible(cmd.argType, m))
                    => /\ last.err = "failed to unmarshal arguments"
                       /\ last.cause = "json: cannot unmarshal"
              /\ (Unencodable(m) \/ ~Convertible(cmd.argType, m))
                    => /\ last.result = NoResult
                       /\ last.calls = << >>
                       /\ ~last.panicked
              /\ last.err \in BindingErrors
                    => (Unencodable(m) \/ ~Convertible(cmd.argType, m))

C21_Witness ==
    /\ last.op = "Route"
    /\ last.name \in DOMAIN commands
    /\ commands[last.name].argType = "Args"
    /\ last.args = <<ScalarArg("x")>>
    /\ last.err = "failed to unmarshal arguments"
    /\ last.calls = << >>

\* C22: a Route call invokes the handler at most once: once when the command
\* is registered and the binding succeeds, not at all otherwise; and the
\* invocation has returned when Route returns.
C22_SingleShot ==
    LET BindingSucceeds(cmd, args) ==
            (HasArgShape(cmd) /\ Len(args) > 0)
                => (~Unencodable(SourceObject(cmd, args))
                    /\ Convertible(cmd.argType, SourceObject(cmd, args)))
    IN  last.op = "Route"
            => /\ Len(last.calls) <= 1
               /\ last.name \notin DOMAIN commands => last.calls = << >>
               /\ last.name \in DOMAIN commands
                     => IF BindingSucceeds(commands[last.name], last.args)
                        THEN /\ Len(last.calls) = 1
                             /\ last.calls[1].name = last.name
                             /\ last.calls[1].ret \in Rets
                        ELSE last.calls = << >>

\* The handlers that take the SDK's context first
SingleShotDocumentedHandlers ==
    LET SdkContextFirst(cmd) == cmd.handler.ins[1] = "*sdk.Context"
    IN  (/\ last.op = "Route"
         /\ last.name \in DOMAIN commands
            => /\ PointerShape(commands[last.name])
               /\ SdkContextFirst(commands[last.name]))
            => C22_SingleShot

\* C23: bound to the keyed object made of the fields of a value v of its
\* shape, the handler receives an instance equal to v field by field, and
\* binding the fields of that instance again gives the same instance.
C23_RoundTrip ==
    (/\ last.op = "Route"
     /\ last.name \in DOMAIN commands
     /\ HasArgShape(commands[last.name])
     /\ Len(last.args) = 1
     /\ Keyed(last.args)
     /\ \E v \in ShapeValues(commands[last.name].argType) : FieldsOf(v) = last.args[1].m)
        => /\ Len(last.calls) = 1
           /\ FieldsOf(last.calls[1].arg) = last.args[1].m
           /\ Unmarshal(FieldsOf(last.calls[1].arg), commands[last.name].argType)
                 = last.calls[1].arg

\* The shapes all of whose fields have a type of their own
RoundTripClosedShapes ==
    LET ClosedShape(t) == \A k \in Keys : FieldKind(t, k) # "any"
    IN  (last.op = "Route" /\ last.name \in DOMAIN commands
            => ClosedShape(commands[last.name].argType))
            => C23_RoundTrip

\* C24: of the callers that concurrently Register valid handlers under one
\* fresh name, one returns nil and every other returns the duplicate error;
\* the registry holds the handler and metadata of the one that returned nil,
\* and the command count has grown by one.
C24_OneWinner ==
    LET Successes(name) == {i \in 1..Len(okRegs) : okRegs[i] = name}
    IN  /\ \A n \in Names : Cardinality(Successes(n)) <= 1
        /\ CommandCount(commands) = Len(okRegs)
        /\ last.op = "CommandCount" => last.count <= Len(okRegs)
        /\ last.op = "Register"
              => /\ Cardinality(Successes(last.name)) = 1
                 /\ CommandCount(commands) = 1
                 /\ last.err \in {NoError, "command already registered"}
                 /\ last.err = NoError
                       => /\ commands[last.name].handler = last.handler
                          /\ commands[last.name].metadata
                                = ApplyOptions(NewMetadata(last.name), last.opts)
                          /\ commands[last.name].argType = DetectArgType(last.handler)

C24_Witness ==
    /\ \A p \in Procs : procs[p].pc = "idle" /\ procs[p].n = 1
    /\ last.op = "Register"
    /\ last.err = "command already registered"
    /\ last.handler # commands["play"].handler
    /\ Len(okRegs) = 1
    /\ CommandCount(commands) = 1

\* C25: a Route that runs concurrently with the Register of its command
\* either finds no command and returns the unknown-command error, or gets the
\* complete record (handler, metadata and argument shape as that Register
\* stored them) and invokes that handler with that shape.
C25_CompleteRecordOrUnknown ==
    LET CompleteRecord(cmd, name) ==
            \E q \in Procs :
                /\ cmd.handler = RaceHandler(q)
                /\ cmd.metadata.Name = name
                /\ cmd.metadata.Description = q
                /\ cmd.metadata.Parameters = SpecParams
                /\ cmd.argType = IF NumIn(cmd.handler) = 2 THEN Elem(cmd.handler.ins[2]) ELSE NoType
    IN  /\ \A p \in Procs :
              InHandler(p) => /\ CompleteRecord(procs[p].cmd, procs[p].name)
                              /\ procs[p].name \in DOMAIN commands
                              /\ procs[p].cmd = commands[procs[p].name]
        /\ last.op = "Route"
              => \/ last.err = "unknown command" /\ last.calls = << >>
                 \/ /\ last.name \in DOMAIN commands
                    /\ Len(last.calls) = 1
                    /\ last.calls[1].types =
                          IF commands[last.name].argType = NoType
                          THEN <<"*sdk.Context">>
                          ELSE <<"*sdk.Context", PtrTo(commands[last.name].argType)>>
                    /\ last.calls[1].types = commands[last.name].handler.ins

C25_Witness ==
    \E p, q \in Procs :
        /\ InHandler(p)
        /\ procs[p].cmd.argType = "Args"
        /\ procs[q].pc \in {"reg_wait", "reg_in"}
        /\ procs[q].name = procs[p].name

\* C26: Initialize is invoked at most once, and every InitializePlugin
\* request with valid tenant ID, plugin ID and config reports what that one
\* invocation returned: Success if no error, INITIALIZATION_ERROR with the
\* error's message otherwise.
ValidIds(req) == req.TenantId /\ req.PluginId

ValidInitialize(req) ==
    req.op = "InitializePlugin" /\ ValidIds(req) /\ req.Config # "garbage"

C26_InitializeOnce ==
    /\ server.initCalls <= 1
    /\ Len(server.initReturned) <= server.initCalls
    /\ ValidInitialize(resp.req)
          => /\ Len(server.initReturned) = 1
             /\ resp.transportErr = NoError
             /\ IF server.initReturned[1] = NoError
                THEN resp.Success /\ ~resp.hasError
                ELSE /\ ~resp.Success
                     /\ resp.Code = "INITIALIZATION_ERROR"
                     /\ resp.Message = server.initReturned[1]

C26_Witness ==
    /\ ValidInitialize(resp.req)
    /\ resp.Code = "INITIALIZATION_ERROR"
    /\ resp.invoked = 0
    /\ server.requests >= 2
    /\ server.initCalls = 1

ValidShutdown(req) == req.op = "ShutdownPlugin" /\ ValidIds(req)

\* C27: across any number and any interleaving of ShutdownPlugin requests to
\* one Server, the plugin's Shutdown is invoked at most once: no request
\* invokes it twice, and all requests together invoke it once at most.
C27_ShutdownOnce ==
    /\ server.shutdownCalls <= 1
    /\ Len(server.shutdownReturned) <= server.shutdownCalls
    /\ Cardinality({p \in Procs : reqs[p].req.op = "ShutdownPlugin"
                                     /\ reqs[p].pc = "in_plugin"}) <= server.shutdownCalls
    /\ resp.req.op = "ShutdownPlugin" => resp.invoked <= server.shutdownCalls

C27_Witness ==
    /\ ValidShutdown(resp.req) /\ resp.invoked = 0
    /\ server.shutdownCalls = 1 /\ Len(server.shutdownReturned) = 1
    /\ \E p \in Procs : reqs[p].pc = "respond" /\ reqs[p].req.op = "ShutdownPlugin"

\* C28: every ShutdownPlugin request with valid tenant and plugin IDs
\* reports the outcome of the single Shutdown invocation: SHUTDOWN_ERROR if
\* Shutdown returned an error, and Success only if it returned none.
C28_ShutdownOutcome ==
    ValidShutdown(resp.req)
       => /\ Len(server.shutdownReturned) = 1
          /\ server.shutdownReturned[1] # NoError
                => ~resp.Success /\ resp.Code = "SHUTDOWN_ERROR"
          /\ resp.Success => server.shutdownReturned[1] = NoError

\* C28 holds for the request that ran Shutdown
C28_RunnerReportsOutcome ==
    (ValidShutdown(resp.req) /\ resp.invoked = 1)
       => /\ Len(server.shutdownReturned) = 1
          /\ IF server.shutdownReturned[1] # NoError
             THEN ~resp.Success /\ resp.Code = "SHUTDOWN_ERROR"
             ELSE resp.Success /\ ~resp.hasError

\* A request that the checks before the once-guard turn down
FailsValidation(req) ==
    \/ ~req.TenantId
    \/ ~req.PluginId
    \/ req.op = "InitializePlugin" /\ req.Config = "garbage"

\* C29: an InitializePlugin or ShutdownPlugin request that fails validation
\* returns INVALID_ARGUMENT, never reaches the once-guard and invokes
\* nothing; a guard is consumed only by an invocation, so it is still new
\* for a later valid request.
C29_InvalidLeavesGuard ==
    LET Guarded == {"InitializePlugin", "ShutdownPlugin"}
    IN  /\ (resp.req.op \in Guarded /\ FailsValidation(resp.req))
              => /\ resp.Code = "INVALID_ARGUMENT"
                 /\ ~resp.Success
                 /\ resp.invoked = 0
                 /\ resp.transportErr = NoError
        /\ \A p \in Procs :
              (reqs[p].pc # "idle" /\ reqs[p].req.op \in Guarded) => ~FailsValidation(reqs[p].req)
        /\ server.initOnce = "new" <=> server.initCalls = 0
        /\ server.shutdownOnce = "new" <=> server.shutdownCalls = 0

\* A valid request runs Initialize although a request that failed
\* validation was turned down
C29_Witness ==
    /\ resp.req.op = "InitializePlugin" /\ FailsValidation(resp.req)
    /\ resp.Code = "INVALID_ARGUMENT"
    /\ server.requests = 2 /\ server.initCalls = 1
    /\ \E p \in Procs : reqs[p].pc = "in_plugin" /\ ValidInitialize(reqs[p].req)

AllDecode(req) == \A i \in 1..Len(req.Args) : req.Args[i]

TypeOK ==
    /\ DOMAIN commands \subseteq Names
    /\ last.op \in {"none", "Register", "Route", "GetCommands", "HasCommand", "CommandCount",
                   "NewBasePlugin"} \cup PluginOps
====
